---- MODULE Spec2Model ----
(***************************************************************************)
(* AtomChat frontend: the task and auth state containers, the HTTP         *)
(* repositories and the interceptor chain (auth -> error -> loading),      *)
(* together with the remote API they talk to.                              *)
(*                                                                         *)
(* One container operation owns one request of the bag `ops` from its      *)
(* invocation to the delivery of its last HTTP response.  A request is     *)
(* first answered by the server (Serve) and the answer is later delivered  *)
(* to the client (Deliver), so answers of overlapping requests arrive in   *)
(* any order.                                                              *)
(* Everything a response triggers on the client runs in one event-loop     *)
(* task, hence in one action.                                              *)
(***************************************************************************)
EXTENDS Integers, Sequences, FiniteSets, Bags, TLC

\* ---------------------------------------------------------------- bounds
MaxInFlight == 2
MaxTasks == 3
MaxCalls == 2

TaskIds == 1..MaxTasks
NULL == "null"
StoredToken == "tok0"
StoredUser == "u1"
UserIds == {"u1", "u2"}

VARIABLES
    activeRequests,   \* loading.interceptor.ts: module-level counter
    loading,          \* LoadingService.loadingSubject value
    token,            \* localStorage['access_token']
    storedUser,       \* localStorage['user']
    authState,        \* AuthApplicationService.authStateSubject value
    taskState,        \* TaskApplicationService.stateSubject value
    route,            \* last Router.navigate target
    serverTasks,      \* remote API: the stored tasks, in creation order
    serverNextId,     \* remote API: next id to assign
    ops,              \* container operations / HTTP requests in flight
    calls,            \* operations invoked so far
    last              \* what the last step did (history)

vars == <<activeRequests, loading, token, storedUser, authState, taskState,
          route, serverTasks, serverNextId, ops, calls, last>>

\* ------------------------------------------------------------- URLs
\* A URL is the sequence of its path segments below the origin.
API_URL == <<"api">>
TasksUrl == API_URL \o <<"tasks">>
TaskUrl == API_URL \o <<"tasks", ":id">>
MeUrl == API_URL \o <<"auth", "me">>
LoginUrl == API_URL \o <<"auth", "login">>
RegisterUrl == API_URL \o <<"auth", "register">>
HealthUrl == API_URL \o <<"health">>

\* String.prototype.includes on segment boundaries
includes(url, part) ==
    \E i \in 0..(Len(url) - Len(part)) :
        \A j \in 1..Len(part) : url[i + j] = part[j]

isAuthEndpoint(url) ==
    includes(url, <<"auth", "login">>) \/ includes(url, <<"auth", "register">>)

skipLoadingEndpoints == {<<"auth", "refresh">>, <<"health">>, <<"ping">>}

shouldSkipLoading(url) ==
    \E endpoint \in skipLoadingEndpoints : includes(url, endpoint)

\* ------------------------------------------------------------- state
initialAuthState ==
    [user |-> NULL, isAuthenticated |-> FALSE, isLoading |-> FALSE, error |-> NULL]

AuthStateOf(user, isAuthenticated, isLoading, error) ==
    [user |-> user, isAuthenticated |-> isAuthenticated,
     isLoading |-> isLoading, error |-> error]

initialTaskState ==
    [tasks |-> <<>>, isLoading |-> FALSE, error |-> NULL]

NoReply == [ok |-> FALSE, status |-> 0, message |-> NULL, body |-> <<>>]
NoError == [status |-> 0, message |-> NULL, error |-> <<>>]

NoLast ==
    [ev |-> "init", kind |-> "none", id |-> 0, url |-> <<>>, ok |-> FALSE,
     before |-> initialTaskState, served |-> NoError, relayed |-> NoError,
     raised |-> NoError, caught |-> NoError,
     body |-> <<>>, wasAuth |-> FALSE, http |-> "none", hdr |-> NULL,
     stored |-> NULL, run |-> <<>>,
     taskEmits |-> <<>>, authEmits |-> <<>>, loadingEmits |-> <<>>,
     toasts |-> 0]

\* ------------------------------------------------ TaskApplicationService
\* A BehaviorSubject: its current value and what it emitted in this step.
Subject(value) == [value |-> value, emits |-> <<>>]

\* BehaviorSubject.next
next(subject, value) == [value |-> value, emits |-> Append(subject.emits, value)]

\* { ...currentState, ...partialState }
merge(state, partialState) ==
    [f \in DOMAIN state |->
        IF f \in DOMAIN partialState THEN partialState[f] ELSE state[f]]

updateState(subject, partialState) ==
    next(subject, merge(subject.value, partialState))

setLoading(subject, isLoading) == updateState(subject, [isLoading |-> isLoading])

setError(subject, error) == updateState(subject, [error |-> error, isLoading |-> FALSE])

clearError(subject) == updateState(subject, [error |-> NULL])

\* Array.prototype.findIndex; 0 stands for -1
findIndex(tasks, id) ==
    IF \E i \in 1..Len(tasks) : tasks[i].id = id
    THEN CHOOSE i \in 1..Len(tasks) :
            tasks[i].id = id /\ \A j \in 1..(i - 1) : tasks[j].id # id
    ELSE 0

\* Array.prototype.filter(task => task.id !== taskId)
filterOut(tasks, taskId) == SelectSeq(tasks, LAMBDA task : task.id # taskId)

\* the fixed message of each operation's catchError
ErrorMessage(kind) ==
    CASE kind = "load" -> "Failed to load tasks"
      [] kind = "create" -> "Failed to create task"
      [] kind = "update" -> "Failed to update task"
      [] kind = "delete" -> "Failed to delete task"
      [] kind = "toggle" -> "Failed to toggle task completion"
      [] OTHER -> NULL

\* faulty variant: the tap forgets isLoading: false
loadTasksTap_KeepsLoading(subject, body) ==
    updateState(subject, [tasks |-> body])

\* loadTasks: tap((tasks) => updateState({ tasks, isLoading: false }))
loadTasksTap(subject, body) ==
    updateState(subject, [tasks |-> body, isLoading |-> FALSE])

\* faulty variant: the tap keeps the list ordered by id
createTaskTap_SortsById(subject, task) ==
    LET tasks == subject.value.tasks
        smaller == SelectSeq(tasks, LAMBDA t : t.id < task.id)
        larger == SelectSeq(tasks, LAMBDA t : t.id >= task.id)
    IN  updateState(subject, [tasks |-> smaller \o <<task>> \o larger,
                              isLoading |-> FALSE])

\* createTask: tap appends the created task to the current list
createTaskTap(subject, task) ==
    updateState(subject, [tasks |-> Append(subject.value.tasks, task),
                          isLoading |-> FALSE])

\* faulty variant: the tap removes the old entry and appends the new one
updateTaskTap_MovesToEnd(subject, id, task) ==
    IF findIndex(subject.value.tasks, id) # 0
    THEN updateState(subject,
            [tasks |-> Append(filterOut(subject.value.tasks, id), task),
             isLoading |-> FALSE])
    ELSE subject

\* faulty variant: the tap appends the task when no entry has its id
updateTaskTap_Upserts(subject, id, task) ==
    LET taskIndex == findIndex(subject.value.tasks, id)
    IN  IF taskIndex # 0
        THEN updateState(subject,
                [tasks |-> [subject.value.tasks EXCEPT ![taskIndex] = task],
                 isLoading |-> FALSE])
        ELSE updateState(subject,
                [tasks |-> Append(subject.value.tasks, task), isLoading |-> FALSE])

\* updateTask: tap replaces the entry found by request.id, if any
updateTaskTap(subject, id, task) ==
    LET taskIndex == findIndex(subject.value.tasks, id)
    IN  IF taskIndex # 0
        THEN updateState(subject,
                [tasks |-> [subject.value.tasks EXCEPT ![taskIndex] = task],
                 isLoading |-> FALSE])
        ELSE subject

\* faulty variant: the filter keeps the entries with the id (=== for !==)
deleteTaskTap_KeepsMatching(subject, taskId) ==
    updateState(subject,
        [tasks |-> SelectSeq(subject.value.tasks, LAMBDA task : task.id = taskId),
         isLoading |-> FALSE])

\* deleteTask: tap filters the deleted id out of the current list
deleteTaskTap(subject, taskId) ==
    updateState(subject, [tasks |-> filterOut(subject.value.tasks, taskId),
                          isLoading |-> FALSE])

\* toggleTaskCompletion: tap replaces the entry found by taskId, if any
toggleTaskCompletionTap(subject, taskId, task) ==
    LET taskIndex == findIndex(subject.value.tasks, taskId)
    IN  IF taskIndex # 0
        THEN updateState(subject,
                [tasks |-> [subject.value.tasks EXCEPT ![taskIndex] = task],
                 isLoading |-> FALSE])
        ELSE subject

\* the tap() of the operation that owns the response
onSuccess(subject, kind, id, body) ==
    CASE kind = "load" -> loadTasksTap(subject, body)
      [] kind = "create" -> createTaskTap(subject, body[1])
      [] kind = "update" -> updateTaskTap(subject, id, body[1])
      [] kind = "delete" -> deleteTaskTap(subject, id)
      [] kind = "toggle" -> toggleTaskCompletionTap(subject, id, body[1])
      [] OTHER -> subject

\* faulty variant: the catchError only clears isLoading
onFailure_NoMessage(subject, kind) ==
    IF ErrorMessage(kind) = NULL THEN subject
    ELSE setLoading(subject, FALSE)

\* the catchError() of each operation: setError, then setLoading(false)
onFailure(subject, kind) ==
    IF ErrorMessage(kind) = NULL THEN subject
    ELSE setLoading(setError(subject, ErrorMessage(kind)), FALSE)

\* the start of each operation: setLoading(true), then clearError()
onCall(subject) == clearError(setLoading(subject, TRUE))

\* what a catchError stage re-raises: throwError(() => error)
containerRethrow(error) == error
repositoryRethrow(error) == error

\* ------------------------------------------------ AuthApplicationService
Auth(tok, user, state, at) ==
    [token |-> tok, storedUser |-> user, state |-> state, route |-> at, emits |-> <<>>]

\* faulty variant: logout forgets clearUser()
logout_KeepsUser(auth) ==
    [token |-> NULL, storedUser |-> auth.storedUser, state |-> initialAuthState,
     route |-> "/login", emits |-> Append(auth.emits, initialAuthState)]

logout(auth) ==
    [token |-> NULL, storedUser |-> NULL, state |-> initialAuthState,
     route |-> "/login", emits |-> Append(auth.emits, initialAuthState)]

\* authStateSubject.next
authNext(auth, state) ==
    [auth EXCEPT !.state = state, !.emits = Append(auth.emits, state)]

\* AuthApplicationService.setLoading
authSetLoading(auth, isLoading) ==
    authNext(auth, AuthStateOf(auth.state.user, auth.state.isAuthenticated,
                               isLoading, auth.state.error))

\* AuthApplicationService.setError
authSetError(auth, error) ==
    authNext(auth, AuthStateOf(auth.state.user, auth.state.isAuthenticated,
                               FALSE, error))

setToken(auth, accessToken) == [auth EXCEPT !.token = accessToken]
setUser(auth, user) == [auth EXCEPT !.storedUser = user]
clearToken(auth) == [auth EXCEPT !.token = NULL]
clearUser(auth) == [auth EXCEPT !.storedUser = NULL]

\* faulty variant: the tap keeps the isLoading flag that login() has set
loginTap_KeepsLoading(auth, response) ==
    authNext(setUser(setToken(auth, response.accessToken), response.user),
             AuthStateOf(response.user, TRUE, TRUE, NULL))

\* login / register: tap persists token and user and replaces the state
loginTap(auth, response) ==
    authNext(setUser(setToken(auth, response.accessToken), response.user),
             AuthStateOf(response.user, TRUE, FALSE, NULL))

registerTap(auth, response) ==
    authNext(setUser(setToken(auth, response.accessToken), response.user),
             AuthStateOf(response.user, TRUE, FALSE, NULL))

\* error.error?.error: the error string of the body of a failed response
serverError(error) ==
    IF error.error # <<>> THEN error.error[1].error ELSE NULL

\* faulty variant: login never looks at the body of the failed response
loginErrorMessage_IgnoresBody(error) ==
    IF error.message # NULL THEN error.message
    ELSE "Login failed. Please try again."

\* login: the message its catchError puts into the state
loginErrorMessage(error) ==
    IF serverError(error) # NULL THEN serverError(error)
    ELSE IF error.message # NULL THEN error.message
    ELSE "Login failed. Please try again."

\* register: the message its catchError puts into the state
registerErrorMessage(error) ==
    IF serverError(error) # NULL THEN serverError(error)
    ELSE "Registration failed. Please try again."

loginCatchError(auth, error) ==
    authSetError(authSetLoading(auth, FALSE), loginErrorMessage(error))

registerCatchError(auth, error) ==
    authSetError(authSetLoading(auth, FALSE), registerErrorMessage(error))

\* faulty variant: the next handler does not persist the user it received
verifyNext_KeepsAnonymous(auth, user) ==
    authNext(auth, AuthStateOf(NULL, FALSE, FALSE, NULL))

\* verifyTokenAndGetUser: next and error handlers of the subscription
verifyNext(auth, user) ==
    authNext(setUser(auth, user), AuthStateOf(user, TRUE, FALSE, NULL))

verifyError(auth) ==
    authNext(clearUser(clearToken(auth)), AuthStateOf(NULL, FALSE, FALSE, NULL))

AuthKinds == {"login", "register", "verify"}

\* the success handler of the auth operation that owns the response
onAuthSuccess(auth, kind, value) ==
    CASE kind = "login" -> loginTap(auth, value)
      [] kind = "register" -> registerTap(auth, value)
      [] kind = "verify" -> verifyNext(auth, value)
      [] OTHER -> auth

\* the error handler of the auth operation that owns the response
onAuthFailure(auth, kind, error) ==
    CASE kind = "login" -> loginCatchError(auth, error)
      [] kind = "register" -> registerCatchError(auth, error)
      [] kind = "verify" -> verifyError(auth)
      [] OTHER -> auth

\* new Error(message), thrown while a response is mapped
Error(message) == [status |-> 0, message |-> message, error |-> <<>>]

Thrown(error) == [ok |-> FALSE, value |-> NULL, error |-> error]
Returned(value) == [ok |-> TRUE, value |-> value, error |-> Error(NULL)]

\* LoginResponse.fromPlainObject: the constructor validates its fields
LoginResponse(data) ==
    IF data.message = NULL THEN Thrown(Error("Message is required"))
    ELSE IF data.accessToken = NULL THEN Thrown(Error("Access token is required"))
    ELSE IF data.user = NULL THEN Thrown(Error("User is required"))
    ELSE Returned([message |-> data.message, accessToken |-> data.accessToken,
                   user |-> data.user])

\* AuthRepositoryImpl.login: map() of the response body
loginMap(response) ==
    IF response.requireRegister
    THEN Thrown(Error("User not found. Please register first."))
    ELSE IF response.accessToken = NULL \/ response.user = NULL
    THEN Thrown(Error("Invalid response from server."))
    ELSE LoginResponse(response)

\* AuthRepositoryImpl.register: map() of the response body
registerMap(response) == LoginResponse(response)

\* AuthRepositoryImpl.getCurrentUser: map() of the response body
getCurrentUserMap(user) == Returned(user)

repositoryMap(kind, body) ==
    CASE kind = "login" -> loginMap(body[1])
      [] kind = "register" -> registerMap(body[1])
      [] OTHER -> getCurrentUserMap(body[1])

\* ------------------------------------------------------- interceptors
\* authInterceptor, request side
\* `Bearer ${token}`
Bearer(tok) ==
    CASE tok = "tok0" -> "Bearer tok0"
      [] tok = "tok1" -> "Bearer tok1"
      [] OTHER -> "Bearer"

addAuthHeader(tok) == IF tok # NULL THEN Bearer(tok) ELSE NULL

\* faulty variant: the stage adds the header to login and register as well
authInterceptorRequest_NoSkip(url, tok) == addAuthHeader(tok)

authInterceptorRequest(url, tok) ==
    IF isAuthEndpoint(url) THEN NULL ELSE addAuthHeader(tok)

\* faulty variant: the handler reacts to 403 instead of 401
authInterceptorError_On403(auth, url, error) ==
    IF isAuthEndpoint(url) THEN auth
    ELSE IF error.status = 403 THEN logout(auth) ELSE auth

\* authInterceptor, catchError
authInterceptorError(auth, url, error) ==
    IF isAuthEndpoint(url) THEN auth
    ELSE IF error.status = 401 THEN logout(auth) ELSE auth

authInterceptorRethrow(error) == error

\* faulty variant: a 401 is left to the auth stage and shows no message
handleError_SilentOn401(toasts, error) ==
    IF error.status = 401 THEN toasts ELSE toasts + 1

\* errorInterceptor, catchError: handleError shows one message
handleError(toasts, error) == toasts + 1

\* faulty variant: the stage raises a fresh error in place of the one it caught
errorInterceptorRethrow_Wraps(error) ==
    [status |-> 0, message |-> "An unexpected error occurred", error |-> <<>>]

errorInterceptorRethrow(error) == error

\* loadingInterceptor: the counter, the flag, and the writes of this step
Loader(n, flag) == [n |-> n, flag |-> flag, emits |-> <<>>]

\* faulty variant: the stage writes true only when the counter leaves 0
loadingInterceptorRequest_OnlyFirst(ld, url) ==
    IF shouldSkipLoading(url) THEN ld
    ELSE IF ld.n = 0
         THEN [n |-> ld.n + 1, flag |-> TRUE, emits |-> Append(ld.emits, TRUE)]
         ELSE [ld EXCEPT !.n = ld.n + 1]

\* faulty variant: the stage counts a request before it looks at its URL
loadingInterceptorRequest_CountsSkipped(ld, url) ==
    IF shouldSkipLoading(url) THEN [ld EXCEPT !.n = ld.n + 1]
    ELSE [n |-> ld.n + 1, flag |-> TRUE, emits |-> Append(ld.emits, TRUE)]

loadingInterceptorRequest(ld, url) ==
    IF shouldSkipLoading(url) THEN ld
    ELSE [n |-> ld.n + 1, flag |-> TRUE, emits |-> Append(ld.emits, TRUE)]

\* faulty variant: finalize clears the flag without looking at the counter
loadingInterceptorFinalize_Always(ld, url) ==
    IF shouldSkipLoading(url) THEN ld
    ELSE [n |-> ld.n - 1, flag |-> FALSE, emits |-> Append(ld.emits, FALSE)]

\* faulty variant: finalize decrements the counter and leaves the flag
loadingInterceptorFinalize_NeverClears(ld, url) ==
    IF shouldSkipLoading(url) THEN ld
    ELSE [ld EXCEPT !.n = ld.n - 1]

loadingInterceptorFinalize(ld, url) ==
    IF shouldSkipLoading(url) THEN ld
    ELSE IF ld.n - 1 = 0
         THEN [n |-> ld.n - 1, flag |-> FALSE, emits |-> Append(ld.emits, FALSE)]
         ELSE [ld EXCEPT !.n = ld.n - 1]

\* faulty variant: the update always marks the task completed
toggleCompletion_MarksDone(task) == TRUE

\* TaskRepositoryImpl.toggleCompletion: completed: !task.completed
toggleCompletion(task) == ~task.completed

\* ------------------------------------------------------------ requests
UrlOf(kind, stage) ==
    CASE kind \in {"load", "create"} -> TasksUrl
      [] kind \in {"update", "delete", "toggle"} -> TaskUrl
      [] kind = "ping" -> HealthUrl
      [] kind = "login" -> LoginUrl
      [] kind = "register" -> RegisterUrl
      [] kind = "verify" -> MeUrl
      [] OTHER -> <<>>

Request(kind, id, completed, stage, hdr) ==
    [kind |-> kind, id |-> id, completed |-> completed,
     stage |-> stage, phase |-> "sent", hdr |-> hdr, reply |-> NoReply]

\* the requests in flight, without their multiplicity
InFlight == BagToSet(ops)

Add(bag, op) == bag (+) SetToBag({op})
Remove(bag, op) == bag (-) SetToBag({op})

PendingCreates ==
    LET creates == {op \in InFlight : op.kind = "create" /\ op.phase = "sent"}
    IN  BagCardinality([op \in creates |-> ops[op]])

Init ==
    /\ activeRequests = 0
    /\ loading = FALSE
    /\ \E persisted \in BOOLEAN :
        /\ token = IF persisted THEN StoredToken ELSE NULL
        /\ storedUser = IF persisted THEN StoredUser ELSE NULL
        /\ authState = IF persisted
                       THEN AuthStateOf(StoredUser, TRUE, FALSE, NULL)
                       ELSE initialAuthState
    /\ taskState = initialTaskState
    /\ route = "/"
    /\ serverTasks = [i \in 1..(MaxTasks - 1) |-> [id |-> i, completed |-> FALSE]]
    /\ serverNextId = MaxTasks
    /\ ops = EmptyBag
    /\ calls = 0
    /\ last = NoLast

\* History of a run of toggles of one id, each invoked after the previous
\* one has completed: the stored completed value, then each returned one.
SequentialRun(kind, id) ==
    IF kind # "toggle" \/ ops # EmptyBag THEN <<>>
    ELSE IF last.ev = "deliver" /\ last.kind = "toggle" /\ last.ok
            /\ last.id = id /\ last.run # <<>>
    THEN last.run
    ELSE IF findIndex(serverTasks, id) # 0
    THEN <<serverTasks[findIndex(serverTasks, id)].completed>>
    ELSE <<>>

\* A task-container operation is invoked and its request dispatched.
Call(kind, id, completed) ==
    /\ BagCardinality(ops) < MaxInFlight
    /\ calls < MaxCalls
    /\ calls' = calls + 1
    /\ LET url == UrlOf(kind, 1)
           subject == IF ErrorMessage(kind) = NULL THEN Subject(taskState)
                      ELSE onCall(Subject(taskState))
           ld == loadingInterceptorRequest(Loader(activeRequests, loading), url)
       IN  /\ taskState' = subject.value
           /\ activeRequests' = ld.n
           /\ loading' = ld.flag
           /\ ops' = Add(ops, Request(kind, id, completed, 1,
                                      authInterceptorRequest(url, token)))
           /\ last' = [NoLast EXCEPT !.ev = "call", !.kind = kind, !.id = id,
                          !.url = url, !.before = taskState,
                          !.wasAuth = authState.isAuthenticated,
                          !.hdr = authInterceptorRequest(url, token),
                          !.stored = token,
                          !.run = SequentialRun(kind, id),
                          !.taskEmits = subject.emits,
                          !.loadingEmits = ld.emits]
    /\ UNCHANGED <<token, storedUser, authState, route, serverTasks, serverNextId>>

\* TasksPageComponent.ngOnInit calls it only with a current user
loadTasks ==
    \E userId \in UserIds :
        /\ userId # NULL
        /\ Call("load", 0, FALSE)

createTask ==
    /\ serverNextId + PendingCreates <= MaxTasks
    /\ Call("create", 0, FALSE)

\* UpdateTaskRequest.validate refuses an empty id
updateTask ==
    \E id \in TaskIds, completed \in BOOLEAN :
        /\ id # 0
        /\ Call("update", id, completed)

deleteTask ==
    \E id \in TaskIds :
        /\ id # 0
        /\ Call("delete", id, FALSE)

toggleTaskCompletion ==
    \E id \in TaskIds :
        /\ id # 0
        /\ Call("toggle", id, FALSE)

\* A background request that no container owns (health check).
ping ==
    /\ shouldSkipLoading(HealthUrl)
    /\ Call("ping", 0, FALSE)

\* An auth-container operation is invoked and its request dispatched.
Submit(kind) ==
    /\ BagCardinality(ops) < MaxInFlight
    /\ calls < MaxCalls
    /\ calls' = calls + 1
    /\ LET url == UrlOf(kind, 1)
           auth == authSetLoading(Auth(token, storedUser, authState, route), TRUE)
           ld == loadingInterceptorRequest(Loader(activeRequests, loading), url)
       IN  /\ authState' = auth.state
           /\ activeRequests' = ld.n
           /\ loading' = ld.flag
           /\ ops' = Add(ops, Request(kind, 0, FALSE, 1,
                                      authInterceptorRequest(url, token)))
           /\ last' = [NoLast EXCEPT !.ev = "call", !.kind = kind, !.url = url,
                          !.before = taskState,
                          !.wasAuth = authState.isAuthenticated,
                          !.hdr = authInterceptorRequest(url, token),
                          !.stored = token,
                          !.authEmits = auth.emits,
                          !.loadingEmits = ld.emits]
    /\ UNCHANGED <<token, storedUser, taskState, route, serverTasks, serverNextId>>

\* LoginPageComponent.onSubmit
login ==
    /\ isAuthEndpoint(LoginUrl)
    /\ Submit("login")

\* LoginPageComponent.onConfirmCreateUser
register ==
    /\ isAuthEndpoint(RegisterUrl)
    /\ Submit("register")

\* faulty variant: leaving the page unsubscribes its pending operations
ngOnDestroy_Unsubscribes(bag) == EmptyBag

\* TasksPageComponent keeps no Subscription and has no ngOnDestroy: the
\* operations it started stay subscribed when the page is left
ngOnDestroy(bag) == bag

\* TasksPageComponent.onLogout: logout(), which navigates away from the page
onLogout ==
    /\ calls < MaxCalls
    /\ calls' = calls + 1
    /\ LET auth == logout(Auth(token, storedUser, authState, route))
       IN  /\ token' = auth.token
           /\ storedUser' = auth.storedUser
           /\ authState' = auth.state
           /\ route' = auth.route
           /\ ops' = ngOnDestroy(ops)
           /\ last' = [NoLast EXCEPT !.ev = "logout", !.kind = "logout",
                          !.before = taskState,
                          !.wasAuth = authState.isAuthenticated,
                          !.stored = token,
                          !.authEmits = auth.emits]
    /\ UNCHANGED <<activeRequests, loading, taskState, serverTasks, serverNextId>>

\* ------------------------------------------------------------ remote API
Ok(status, body) == [ok |-> TRUE, status |-> status, message |-> NULL, body |-> body]
Fail(status) == [ok |-> FALSE, status |-> status, message |-> NULL, body |-> <<>>]

\* the body of a failed response: { error: detail }
Refuse(status, detail) ==
    [ok |-> FALSE, status |-> status, message |-> NULL,
     body |-> <<[error |-> detail]>>]

NewToken == "tok1"

\* the body of a successful login or register; message is optional
Session(message, user) ==
    [message |-> message, accessToken |-> NewToken, user |-> user,
     requireRegister |-> FALSE]

\* the body with which login reports an unknown email
RequireRegister ==
    [message |-> "User not found", accessToken |-> NULL, user |-> NULL,
     requireRegister |-> TRUE]

RequestType(op) ==
    CASE op.kind = "load" -> "findAll"
      [] op.kind = "verify" -> "getCurrentUser"
      [] op.kind = "toggle" /\ op.stage = 1 -> "findById"
      [] op.kind = "toggle" /\ op.stage = 2 -> "update"
      [] OTHER -> op.kind

serverIndex(id) == findIndex(serverTasks, id)

\* statuses with which the API may refuse a request
Refusals(op) ==
    IF op.kind # "ping" /\ op.hdr = NULL THEN {401} ELSE {401, 500}

\* replies with which the API may refuse a request
Rejections(op) ==
    CASE op.kind = "login" -> {Refuse(401, "Invalid credentials"), Fail(500)}
      [] op.kind = "register" -> {Refuse(409, "User already exists"), Fail(500)}
      [] OTHER -> {Fail(status) : status \in Refusals(op)}

\* login and register are open; ping is a health check
Admitted(op) == op.kind \in {"ping", "login", "register"} \/ op.hdr # NULL

Answer(op, reply, tasks, nextId) ==
    /\ ops' = Add(Remove(ops, op), [op EXCEPT !.phase = "replied", !.reply = reply])
    /\ serverTasks' = tasks
    /\ serverNextId' = nextId
    /\ UNCHANGED <<activeRequests, loading, token, storedUser, authState,
                   taskState, route, calls, last>>

\* The API answers a request.
Serve(op) ==
    /\ op.phase = "sent"
    /\ LET type == RequestType(op)
           at == serverIndex(op.id)
       IN  \/ \E reply \in Rejections(op) :
                Answer(op, reply, serverTasks, serverNextId)
           \/ /\ Admitted(op)
              /\ CASE type = "findAll" ->
                        Answer(op, Ok(200, serverTasks), serverTasks, serverNextId)
                   [] type = "create" ->
                        LET task == [id |-> serverNextId, completed |-> FALSE]
                        IN  Answer(op, Ok(201, <<task>>), Append(serverTasks, task),
                                   serverNextId + 1)
                   [] type = "findById" ->
                        IF at = 0 THEN Answer(op, Fail(404), serverTasks, serverNextId)
                        ELSE Answer(op, Ok(200, <<serverTasks[at]>>), serverTasks,
                                    serverNextId)
                   [] type = "update" ->
                        IF at = 0 THEN Answer(op, Fail(404), serverTasks, serverNextId)
                        ELSE LET task == [id |-> op.id, completed |-> op.completed]
                             IN  Answer(op, Ok(200, <<task>>),
                                        [serverTasks EXCEPT ![at] = task], serverNextId)
                   [] type = "delete" ->
                        IF at = 0 THEN Answer(op, Fail(404), serverTasks, serverNextId)
                        ELSE Answer(op, Ok(204, <<>>), filterOut(serverTasks, op.id),
                                    serverNextId)
                   [] type = "login" ->
                        \/ \E message \in {"Login successful", NULL}, user \in UserIds :
                                Answer(op, Ok(200, <<Session(message, user)>>),
                                       serverTasks, serverNextId)
                        \/ Answer(op, Ok(200, <<RequireRegister>>), serverTasks,
                                  serverNextId)
                   [] type = "register" ->
                        \E message \in {"User registered", NULL}, user \in UserIds :
                            Answer(op, Ok(201, <<Session(message, user)>>),
                                   serverTasks, serverNextId)
                   [] type = "getCurrentUser" ->
                        Answer(op, Ok(200, <<StoredUser>>), serverTasks, serverNextId)
                   [] OTHER ->
                        Answer(op, Ok(200, <<>>), serverTasks, serverNextId)

\* ------------------------------------------------------------ responses
Settle(subject, auth, ld) ==
    /\ taskState' = subject.value
    /\ token' = auth.token
    /\ storedUser' = auth.storedUser
    /\ authState' = auth.state
    /\ route' = auth.route
    /\ activeRequests' = ld.n
    /\ loading' = ld.flag
    /\ UNCHANGED <<serverTasks, serverNextId, calls>>

\* the HttpErrorResponse the HTTP client raises for a failed response
HttpErrorResponse(reply) ==
    [status |-> reply.status, message |-> "Http failure response",
     error |-> reply.body]

\* toggleCompletion: findById answered, switchMap dispatches the update
DeliverFound(op) ==
    LET task == op.reply.body[1]
        ld == loadingInterceptorFinalize(
                loadingInterceptorRequest(Loader(activeRequests, loading), TaskUrl),
                UrlOf(op.kind, op.stage))
    IN  /\ Settle(Subject(taskState), Auth(token, storedUser, authState, route), ld)
        /\ ops' = Add(Remove(ops, op),
                      Request("toggle", task.id, toggleCompletion(task), 2,
                              authInterceptorRequest(TaskUrl, token)))
        /\ last' = [NoLast EXCEPT !.ev = "forward", !.kind = op.kind, !.id = op.id,
                       !.url = TaskUrl, !.before = taskState,
                       !.wasAuth = authState.isAuthenticated,
                       !.http = "ok", !.stored = token,
                       !.hdr = authInterceptorRequest(TaskUrl, token),
                       !.run = IF last.ev = "call" /\ last.kind = "toggle"
                                   /\ last.id = op.id
                               THEN last.run ELSE <<>>,
                       !.loadingEmits = ld.emits]

DeliverValue(op) ==
    LET url == UrlOf(op.kind, op.stage)
        subject == onSuccess(Subject(taskState), op.kind, op.id, op.reply.body)
        ld == loadingInterceptorFinalize(Loader(activeRequests, loading), url)
    IN  /\ Settle(subject, Auth(token, storedUser, authState, route), ld)
        /\ ops' = Remove(ops, op)
        /\ last' = [NoLast EXCEPT !.ev = "deliver", !.kind = op.kind, !.id = op.id,
                       !.url = url, !.ok = TRUE, !.before = taskState,
                       !.body = op.reply.body,
                       !.wasAuth = authState.isAuthenticated,
                       !.http = "ok",
                       !.run = IF op.kind = "toggle" /\ last.ev = "forward"
                                   /\ last.id = op.id /\ last.run # <<>>
                               THEN Append(last.run, op.reply.body[1].completed)
                               ELSE <<>>,
                       !.taskEmits = subject.emits,
                       !.loadingEmits = ld.emits]

DeliverError(op) ==
    LET url == UrlOf(op.kind, op.stage)
        served == HttpErrorResponse(op.reply)
        toasts == handleError(0, served)
        e1 == errorInterceptorRethrow(served)
        expired == authInterceptorError(Auth(token, storedUser, authState, route),
                                        url, e1)
        e2 == IF isAuthEndpoint(url) THEN e1 ELSE authInterceptorRethrow(e1)
        e3 == repositoryRethrow(e2)
        subject == onFailure(Subject(taskState), op.kind)
        auth == onAuthFailure(expired, op.kind, e3)
        e4 == IF op.kind \in {"ping", "verify"} THEN e3 ELSE containerRethrow(e3)
        ld == loadingInterceptorFinalize(Loader(activeRequests, loading), url)
    IN  /\ Settle(subject, auth, ld)
        /\ ops' = Remove(ops, op)
        /\ last' = [NoLast EXCEPT !.ev = "deliver", !.kind = op.kind, !.id = op.id,
                       !.url = url, !.ok = FALSE, !.before = taskState,
                       !.served = served, !.relayed = e1, !.raised = e4,
                       !.caught = e3,
                       !.wasAuth = authState.isAuthenticated,
                       !.http = "error", !.hdr = op.hdr, !.stored = token,
                       !.taskEmits = subject.emits, !.authEmits = auth.emits,
                       !.loadingEmits = ld.emits, !.toasts = toasts]

\* LoginPageComponent: the next handler of login / register navigates
onSubmitNext(auth, kind) ==
    IF kind \in {"login", "register"} THEN [auth EXCEPT !.route = "/tasks"]
    ELSE auth

\* A successful response of an auth endpoint: the repository maps the body,
\* which may throw, and the auth container handles the outcome.
DeliverSession(op) ==
    LET url == UrlOf(op.kind, op.stage)
        mapped == repositoryMap(op.kind, op.reply.body)
        held == Auth(token, storedUser, authState, route)
        auth == IF mapped.ok
                THEN onSubmitNext(onAuthSuccess(held, op.kind, mapped.value), op.kind)
                ELSE onAuthFailure(held, op.kind, repositoryRethrow(mapped.error))
        raised == IF mapped.ok \/ op.kind = "verify" THEN NoError
                  ELSE containerRethrow(repositoryRethrow(mapped.error))
        ld == loadingInterceptorFinalize(Loader(activeRequests, loading), url)
    IN  /\ Settle(Subject(taskState), auth, ld)
        /\ ops' = Remove(ops, op)
        /\ last' = [NoLast EXCEPT !.ev = "deliver", !.kind = op.kind, !.id = op.id,
                       !.url = url, !.ok = mapped.ok, !.before = taskState,
                       !.raised = raised, !.body = op.reply.body,
                       !.caught = IF mapped.ok THEN NoError
                                  ELSE repositoryRethrow(mapped.error),
                       !.wasAuth = authState.isAuthenticated,
                       !.http = "ok", !.hdr = op.hdr, !.stored = token,
                       !.authEmits = auth.emits,
                       !.loadingEmits = ld.emits]

\* A response reaches the client.
Deliver(op) ==
    /\ op.phase = "replied"
    /\ IF ~op.reply.ok THEN DeliverError(op)
       ELSE IF RequestType(op) = "findById" THEN DeliverFound(op)
       ELSE IF op.kind \in AuthKinds THEN DeliverSession(op)
       ELSE DeliverValue(op)

Next ==
    \/ loadTasks
    \/ createTask
    \/ updateTask
    \/ deleteTask
    \/ toggleTaskCompletion
    \/ ping
    \/ \E op \in InFlight : Serve(op)
    \/ \E op \in InFlight : Deliver(op)

Spec == Init /\ [][Next]_vars

\* Every request is answered and every response delivered: the HTTP client
\* completes or fails each request it has dispatched.
LiveNext ==
    \/ loadTasks
    \/ toggleTaskCompletion
    \/ ping
    \/ \E op \in InFlight : Serve(op)
    \/ \E op \in InFlight : Deliver(op)

LiveSpec ==
    /\ Init /\ [][LiveNext]_vars
    /\ WF_vars(\E op \in InFlight : Serve(op))
    /\ WF_vars(\E op \in InFlight : Deliver(op))

\* ------------------------------------------------- sessions and tasks
\* The application starts with nothing, with a token and a user, or with a
\* token only; in the last case the constructor of the auth container has
\* dispatched the verification of the token.
AuthInit ==
    /\ \E persisted \in {"none", "both", "token"} :
        /\ token = IF persisted = "none" THEN NULL ELSE StoredToken
        /\ storedUser = IF persisted = "both" THEN StoredUser ELSE NULL
        /\ authState = IF persisted = "both"
                       THEN AuthStateOf(StoredUser, TRUE, FALSE, NULL)
                       ELSE initialAuthState
        /\ LET ld == IF persisted = "token"
                     THEN loadingInterceptorRequest(Loader(0, FALSE), MeUrl)
                     ELSE Loader(0, FALSE)
           IN  /\ activeRequests = ld.n
               /\ loading = ld.flag
        /\ ops = IF persisted = "token"
                 THEN SetToBag({Request("verify", 0, FALSE, 1,
                                        authInterceptorRequest(MeUrl, StoredToken))})
                 ELSE EmptyBag
    /\ taskState = initialTaskState
    /\ route = "/"
    /\ serverTasks = [i \in 1..(MaxTasks - 1) |-> [id |-> i, completed |-> FALSE]]
    /\ serverNextId = MaxTasks
    /\ calls = 0
    /\ last = NoLast

AuthNext ==
    \/ login
    \/ register
    \/ onLogout
    \/ loadTasks
    \/ createTask
    \/ \E op \in InFlight : Serve(op)
    \/ \E op \in InFlight : Deliver(op)

AuthSpec == AuthInit /\ [][AuthNext]_vars

\* ------------------------------------------------- concurrent creates
\* An authenticated session whose task list is loaded; the API holds one
\* task less than in Init, so that two tasks can be created.
CreateInit ==
    /\ activeRequests = 0
    /\ loading = FALSE
    /\ token = StoredToken
    /\ storedUser = StoredUser
    /\ authState = AuthStateOf(StoredUser, TRUE, FALSE, NULL)
    /\ serverTasks = [i \in 1..(MaxTasks - 2) |-> [id |-> i, completed |-> FALSE]]
    /\ serverNextId = MaxTasks - 1
    /\ taskState = [tasks |-> serverTasks, isLoading |-> FALSE, error |-> NULL]
    /\ route = "/tasks"
    /\ ops = EmptyBag
    /\ calls = 0
    /\ last = NoLast

CreateNext ==
    \/ createTask
    \/ ping
    \/ \E op \in InFlight : Serve(op)
    \/ \E op \in InFlight : Deliver(op)

CreateSpec == CreateInit /\ [][CreateNext]_vars

\* ------------------------------------------------- change of user
\* An authenticated session whose task list is loaded ends and another
\* one begins.
SwitchNext ==
    \/ onLogout
    \/ login
    \/ loadTasks
    \/ \E op \in InFlight : Serve(op)
    \/ \E op \in InFlight : Deliver(op)

SwitchSpec == CreateInit /\ [][SwitchNext]_vars

\* ------------------------------------------------- successful operations
\* The API answers a request without refusing it.
Accept(op) ==
    /\ Serve(op)
    /\ \A sent \in BagToSet(ops') : sent.phase = "replied" => sent.reply.ok

\* Task operations on a loaded list, none of which fails.
RaceNext ==
    \/ loadTasks
    \/ createTask
    \/ updateTask
    \/ deleteTask
    \/ toggleTaskCompletion
    \/ \E op \in InFlight : Accept(op)
    \/ \E op \in InFlight : Deliver(op)

RaceSpec == CreateInit /\ [][RaceNext]_vars

\* ================================================================ claims
Mutating == {"create", "update", "delete", "toggle"}

Delivered(kind) == last.ev = "deliver" /\ last.kind = kind
Succeeded(kind) == Delivered(kind) /\ last.ok
Failed(kind) == Delivered(kind) /\ ~last.ok

TrackedInFlight ==
    {op \in InFlight : ~shouldSkipLoading(UrlOf(op.kind, op.stage))}

Occurrences(tasks, id) == Cardinality({i \in DOMAIN tasks : tasks[i].id = id})

Kept(tasks, id) == {i \in DOMAIN tasks : tasks[i].id # id}

Rank(S, i) == Cardinality({j \in S : j <= i})

\* C1: while any tracked request is in flight the shared loading flag is
\* true, and no step writes false to it while one is still in flight.
C1_LoadingWhileInFlight ==
    TrackedInFlight # {} =>
        /\ loading = TRUE
        /\ \A i \in DOMAIN last.loadingEmits : last.loadingEmits[i] = TRUE

\* a tracked request completed while another tracked request is in flight
C1_Witness ==
    /\ last.ev = "deliver"
    /\ ~shouldSkipLoading(last.url)
    /\ TrackedInFlight # {}
    /\ loading = TRUE

\* C2: a 401 on a request that is not to login/register removes the
\* persisted token and user and notifies isAuthenticated=false.
C2_ForcedLogoutOn401 ==
    (/\ last.ev = "deliver"
     /\ ~last.ok
     /\ last.served.status = 401
     /\ ~isAuthEndpoint(last.url)) =>
        /\ token = NULL
        /\ storedUser = NULL
        /\ authState.isAuthenticated = FALSE
        /\ \E i \in DOMAIN last.authEmits :
                last.authEmits[i].isAuthenticated = FALSE

\* an authenticated session with persisted credentials received a 401
C2_Witness ==
    /\ last.ev = "deliver"
    /\ ~last.ok
    /\ last.served.status = 401
    /\ ~isAuthEndpoint(last.url)
    /\ last.wasAuth
    /\ token = NULL

\* C3: after a successful create the created task is in the list exactly
\* once, as the last element, behind the unchanged previous entries.
C3_CreateAppendsOnce ==
    Succeeded("create") =>
        /\ taskState.tasks = Append(last.before.tasks, last.body[1])
        /\ Occurrences(taskState.tasks, last.body[1].id) = 1

\* C4: a successful mutating operation leaves isLoading cleared.
C4_SuccessClearsLoading ==
    (\E kind \in Mutating : Succeeded(kind)) => taskState.isLoading = FALSE

\* C5: a successful update or toggle of an id present in the list replaces
\* one entry with that id, in place, by the server-returned task.
C5_ReplaceInPlace ==
    \A kind \in {"update", "toggle"} :
        (Succeeded(kind) /\ Occurrences(last.before.tasks, last.id) > 0) =>
            \E i \in DOMAIN last.before.tasks :
                /\ last.before.tasks[i].id = last.id
                /\ taskState.tasks = [last.before.tasks EXCEPT ![i] = last.body[1]]

\* an entry was replaced by a different value while another entry stayed
C5_Witness ==
    /\ \E kind \in {"update", "toggle"} : Succeeded(kind)
    /\ Occurrences(last.before.tasks, last.id) > 0
    /\ Len(taskState.tasks) >= 2
    /\ taskState.tasks # last.before.tasks

\* C6: after a successful delete no entry has the deleted id and the other
\* entries remain, in their previous relative order.
C6_DeleteRemoves ==
    Succeeded("delete") =>
        LET kept == Kept(last.before.tasks, last.id)
        IN  /\ Occurrences(taskState.tasks, last.id) = 0
            /\ Len(taskState.tasks) = Cardinality(kept)
            /\ \A i \in kept : taskState.tasks[Rank(kept, i)] = last.before.tasks[i]

\* an entry was removed and another one remained
C6_Witness ==
    /\ Succeeded("delete")
    /\ Occurrences(last.before.tasks, last.id) > 0
    /\ Len(taskState.tasks) >= 1

\* C7: a successful update of an id that is not in the list leaves the
\* list unchanged.
C7_UpdateAbsentIsNoOp ==
    (Succeeded("update") /\ Occurrences(last.before.tasks, last.id) = 0) =>
        taskState.tasks = last.before.tasks

\* an update succeeded for an id that is not in the list
C7_Witness ==
    /\ Succeeded("update")
    /\ Occurrences(last.before.tasks, last.id) = 0
    /\ taskState.tasks = last.before.tasks

\* C8: a failed mutating operation ends with its fixed error message,
\* isLoading=false and the list it had before.
C8_FailureSetsError ==
    \A kind \in Mutating :
        Failed(kind) =>
            /\ taskState.error = ErrorMessage(kind)
            /\ taskState.isLoading = FALSE
            /\ taskState.tasks = last.before.tasks

\* a delete of an id the server does not have failed on a non-empty list
C8_Witness ==
    /\ Failed("delete")
    /\ last.served.status = 404
    /\ Len(taskState.tasks) >= 1
    /\ last.before.error = NULL

\* C9: the error stage re-raises the error it received and the caller of
\* the container operation receives that same error.
C9_ErrorPropagatedUnchanged ==
    (last.ev = "deliver" /\ ~last.ok) =>
        /\ last.relayed = last.served
        /\ last.raised = last.served

\* a container operation failed with a transport error
C9_Witness ==
    /\ \E kind \in Mutating : Failed(kind)
    /\ last.served.status = 500
    /\ last.raised.status = 500

\* C10: loadTasks sets isLoading and clears the error; on success it
\* replaces the list and clears isLoading; on failure it sets its message,
\* clears isLoading and keeps the list.
C10_LoadTasks ==
    /\ (last.ev = "call" /\ last.kind = "load") =>
            taskState.isLoading = TRUE /\ taskState.error = NULL
    /\ Succeeded("load") =>
            taskState.tasks = last.body /\ taskState.isLoading = FALSE
    /\ Failed("load") =>
            /\ taskState.error = "Failed to load tasks"
            /\ taskState.isLoading = FALSE
            /\ taskState.tasks = last.before.tasks

\* a load replaced a non-empty list by a different one
C10_Witness ==
    /\ Succeeded("load")
    /\ last.before.tasks # <<>>
    /\ taskState.tasks # last.before.tasks

\* ---------------------------------------------------------- sessions
SessionKinds == {"login", "register"}

GenericMessage(kind) ==
    IF kind = "login" THEN "Login failed. Please try again."
    ELSE "Registration failed. Please try again."

\* the error string the body of the failed response carries, if any
ServerString(error) ==
    IF error.error # <<>> THEN error.error[1].error ELSE NULL

C12_FailureMessage ==
    \A kind \in SessionKinds :
        Failed(kind) =>
            /\ authState.isLoading = FALSE
            /\ authState.error = IF ServerString(last.caught) # NULL
                                 THEN ServerString(last.caught)
                                 ELSE GenericMessage(kind)
            /\ last.raised = last.caught

\* C12 as amended: a failed login or register ends with isLoading=false
\* and the caller receives the failure; the error is the error string of
\* the server if the failure carries one; otherwise login takes the
\* message of the failure itself when it has one, and only without it
\* (as register always does) the generic fallback message.
C12_FailureMessageAmended ==
    \A kind \in SessionKinds :
        Failed(kind) =>
            /\ authState.isLoading = FALSE
            /\ authState.error =
                    IF ServerString(last.caught) # NULL
                    THEN ServerString(last.caught)
                    ELSE IF kind = "login" /\ last.caught.message # NULL
                    THEN last.caught.message
                    ELSE GenericMessage(kind)
            /\ last.raised = last.caught

\* a login was refused with an error string in the body of the response
C12_Witness ==
    /\ Failed("login")
    /\ last.http = "error"
    /\ ServerString(last.caught) # NULL
    /\ authState.error = ServerString(last.caught)

\* C13: logout() removes the persisted token and user, replaces the auth
\* state by the initial unauthenticated snapshot and navigates to login.
C13_Logout ==
    last.ev = "logout" =>
        /\ token = NULL
        /\ storedUser = NULL
        /\ authState = initialAuthState
        /\ last.authEmits = <<initialAuthState>>
        /\ route = "/login"

\* an authenticated session with a persisted token logged out
C13_Witness ==
    /\ last.ev = "logout"
    /\ last.wasAuth
    /\ last.stored # NULL
    /\ token = NULL

\* C14: the verification of a token that was persisted without a user
\* ends, on success, authenticated with the returned user and, on any
\* failure, with the credentials cleared and the state unauthenticated.
C14_VerifyToken ==
    /\ Succeeded("verify") =>
            /\ authState = AuthStateOf(last.body[1], TRUE, FALSE, NULL)
            /\ storedUser = last.body[1]
    /\ Failed("verify") =>
            /\ token = NULL
            /\ storedUser = NULL
            /\ authState = AuthStateOf(NULL, FALSE, FALSE, NULL)

\* the token found at construction was verified
C14_Witness ==
    /\ Succeeded("verify")
    /\ ~last.wasAuth
    /\ token = StoredToken
    /\ authState.isAuthenticated
    /\ authState.user = StoredUser

\* C15: a dispatched request carries `Bearer <token>` exactly if it is not
\* to login/register and a token is in storage at that moment, whatever
\* the in-memory auth state says; otherwise it carries no such header.
C15_AuthHeader ==
    last.ev \in {"call", "forward"} =>
        IF ~isAuthEndpoint(last.url) /\ last.stored # NULL
        THEN last.hdr = Bearer(last.stored)
        ELSE last.hdr = NULL

\* a request took the stored token while the state was unauthenticated
C15_Witness ==
    /\ last.ev = "call"
    /\ ~last.wasAuth
    /\ last.stored = StoredToken
    /\ last.hdr = Bearer(StoredToken)

\* C16: the delivery of a failed response shows exactly one notification,
\* the delivery of a successful response none.
C16_OneNotification ==
    /\ last.http = "error" => last.toasts = 1
    /\ last.http = "ok" => last.toasts = 0

\* a 401 that also forced the logout showed one notification
C16_Witness ==
    /\ last.http = "error"
    /\ last.served.status = 401
    /\ last.wasAuth
    /\ token = NULL
    /\ last.toasts = 1

\* C17: of two toggles of one id, the second invoked after the first has
\* completed, the first returns the inverted completed value and the
\* second returns the original one.
C17_ToggleTwice ==
    (Succeeded("toggle") /\ Len(last.run) >= 2) =>
        /\ \A i \in 1..(Len(last.run) - 1) : last.run[i + 1] = ~last.run[i]
        /\ Len(last.run) >= 3 => last.run[3] = last.run[1]

\* the second toggle of a run completed
C17_Witness ==
    /\ Succeeded("toggle")
    /\ Len(last.run) = 3
    /\ last.body[1].completed = last.run[1]
    /\ last.body[1].id = last.id

\* the outcome of the task operation delivered by the step is in the state
Landed ==
    /\ taskState'.isLoading = FALSE
    /\ (last'.ok /\ last'.kind = "create") =>
            taskState'.tasks = Append(taskState.tasks, last'.body[1])
    /\ (last'.ok /\ last'.kind = "load") => taskState'.tasks = last'.body
    /\ ~last'.ok => taskState'.error = ErrorMessage(last'.kind)

C19_NoPartialSnapshot ==
    /\ \A i \in DOMAIN last.taskEmits : last.taskEmits[i] = taskState
    /\ \A i \in DOMAIN last.authEmits : last.authEmits[i] = authState

\* C20: each create that succeeds is appended behind the entries present
\* when its response arrives, and once nothing is in flight every task
\* the API has stored is in the list exactly once: of two creates in
\* flight together neither is lost, and they stand in the order in which
\* their responses arrived.
C20_ConcurrentCreates ==
    /\ Succeeded("create") =>
            taskState.tasks = Append(last.before.tasks, last.body[1])
    /\ ops = EmptyBag =>
            \A i \in DOMAIN serverTasks :
                Occurrences(taskState.tasks, serverTasks[i].id) = 1

\* two creates were in flight together and the response of the one the
\* API handled second arrived first
C20_Witness ==
    /\ Succeeded("create")
    /\ ops = EmptyBag
    /\ Len(taskState.tasks) = Len(serverTasks)
    /\ \E i \in 1..(Len(taskState.tasks) - 1) :
            taskState.tasks[i].id > taskState.tasks[i + 1].id

\* C21: an id leaves the list only because its delete succeeded on the
\* server: with the response of that delete, or with the response of a
\* load that no longer contains it because the server has deleted it.
C21_RemovedOnlyByDelete ==
    \A i \in DOMAIN last.before.tasks :
        LET id == last.before.tasks[i].id
        IN  Occurrences(taskState.tasks, id) = 0 =>
                \/ Succeeded("delete") /\ last.id = id
                \/ Succeeded("load") /\ serverIndex(id) = 0

Writes(value) == \E i \in DOMAIN last.loadingEmits : last.loadingEmits[i] = value

\* C22 as stated: the loading stage writes true only when the counter goes
\* from 0 to 1 and false only when it reaches 0; a dispatch while another
\* tracked request is in flight writes nothing.
C22_WritesOnTransitionsOnly ==
    /\ (last.ev = "call" /\ Writes(TRUE)) => activeRequests = 1
    /\ (last.ev = "call" /\ activeRequests > 1) => last.loadingEmits = <<>>
    /\ Writes(FALSE) => activeRequests = 0

\* C22 as amended: the loading stage writes true once at every dispatch of
\* a tracked request, also while others are in flight, and writes false
\* only, and always, when a completion brings the counter to 0; a
\* request it skips writes nothing.
C22_WritesAmended ==
    /\ last.ev = "call" =>
            last.loadingEmits = IF shouldSkipLoading(last.url) THEN <<>>
                                ELSE <<TRUE>>
    /\ Writes(FALSE) => activeRequests = 0
    /\ (last.ev = "deliver" /\ ~shouldSkipLoading(last.url)) =>
            last.loadingEmits = IF activeRequests = 0 THEN <<FALSE>> ELSE <<>>

\* a tracked request was dispatched while another one was in flight
C22_Witness ==
    /\ last.ev = "call"
    /\ activeRequests = 2
    /\ last.loadingEmits = <<TRUE>>
    /\ loading = TRUE

\* C23: the counter equals the number of tracked requests in flight, and
\* hence is never negative: one increment per dispatch, one decrement per
\* completion, on success and on failure alike.
C23_CounterIsInFlight ==
    LET tracked == {op \in InFlight : ~shouldSkipLoading(UrlOf(op.kind, op.stage))}
    IN  /\ activeRequests = BagCardinality([op \in tracked |-> ops[op]])
        /\ activeRequests >= 0

\* the counter returned to 1 after a failure among two tracked requests
C23_Witness ==
    /\ last.ev = "deliver"
    /\ ~last.ok
    /\ ~shouldSkipLoading(last.url)
    /\ activeRequests = 1
    /\ BagCardinality(ops) = 1

AsSet(tasks) == {tasks[i] : i \in DOMAIN tasks}

\* C24: once every invoked task operation has resolved successfully, the
\* list holds exactly the tasks the server stores, none of them twice,
\* also when a load overlapped a create, update, delete or toggle.
C24_ListEqualsServer ==
    ops = EmptyBag =>
        /\ AsSet(taskState.tasks) = AsSet(serverTasks)
        /\ \A i \in DOMAIN taskState.tasks :
                Occurrences(taskState.tasks, taskState.tasks[i].id) = 1

\* a request of the session that a later login replaced has failed
StaleFailure ==
    /\ last.ev = "deliver"
    /\ ~last.ok
    /\ last.hdr = Bearer(StoredToken)
    /\ last.stored = NewToken
    /\ last.wasAuth
    /\ last.kind = "verify" \/ last.served.status = 401

\* C25: the failure of a request of an earlier session (the startup
\* verification, or a 401 for a request sent with the previous token) that
\* arrives after a later login has succeeded leaves the new token and
\* user in place and the state authenticated.
C25_StaleFailureKeepsSession ==
    StaleFailure =>
        /\ token = last.stored
        /\ storedUser # NULL
        /\ authState.isAuthenticated

\* C26: the auth state is authenticated only while a token is in storage;
\* a verification that succeeds after a logout does not authenticate.
C26_AuthenticatedHasToken ==
    authState.isAuthenticated => token # NULL

\* C27: while at least one task operation is pending, the isLoading flag
\* of the task state is true.
C27_LoadingWhilePending ==
    (\E op \in InFlight : ErrorMessage(op.kind) # NULL) => taskState.isLoading

\* the toggles of one id whose update the API has accepted
ToggledOnServer(id) ==
    LET done == {op \in InFlight : /\ op.kind = "toggle" /\ op.id = id
                                   /\ op.stage = 2 /\ op.phase = "replied"
                                   /\ op.reply.ok}
    IN  BagCardinality([op \in done |-> ops[op]])

\* C28: each successful toggle inverts the stored completed value once,
\* also when two toggles of one id overlap: when the only two operations
\* invoked are two toggles of a task and the API has accepted both, the
\* task has the value it started with.
C28_TwoTogglesRestore ==
    \A id \in TaskIds :
        (calls = 2 /\ ToggledOnServer(id) = 2) =>
            serverTasks[serverIndex(id)].completed = FALSE

\* C29: when every dispatched request completes, the loading flag
\* eventually becomes false, and once false it stays false until a
\* tracked request is dispatched.
C29_LoadingEventuallyFalse ==
    /\ loading ~> ~loading
    /\ [][(~loading /\ loading') =>
                /\ last'.ev \in {"call", "forward"}
                /\ ~shouldSkipLoading(last'.url)]_vars

\* the last of two overlapping tracked requests completed
C29_Witness ==
    /\ last.ev = "deliver"
    /\ calls = 2
    /\ last.loadingEmits = <<FALSE>>
    /\ ~loading
    /\ ops = EmptyBag

\* C30: after a logout, explicit or forced by a 401, the task container
\* holds none of the previous user's tasks, and a different user who logs
\* in next finds it empty.
C30_TasksClearedOnLogout ==
    /\ (last.ev = "logout" /\ last.wasAuth) => taskState.tasks = <<>>
    /\ (Failed("load") /\ last.wasAuth /\ ~authState.isAuthenticated) =>
            taskState.tasks = <<>>
    /\ (Succeeded("login") /\ ~last.wasAuth /\ authState.user # StoredUser) =>
            taskState.tasks = <<>>
====
